---- MODULE Spec2Model ----
(***************************************************************************)
(* A model of seq2tree/encoder_decoder.py: the batch formatters of         *)
(* EncoderDecoderModel (format_example, get_batch, get_bucket), the graph  *)
(* construction of Seq2TreeModel (define_graph, encode_decode, the         *)
(* get-or-create of the shared variables) and the step protocol.           *)
(*                                                                         *)
(* Python lists are sequences; a 0-based index i of the source is the      *)
(* 1-based index i + 1 here.  A raised exception is a result record whose  *)
(* status names the exception.                                             *)
(***************************************************************************)
EXTENDS Integers, Sequences, FiniteSets, TLC

VARIABLES
  hyperparams,   \* the hyperparams argument of the constructor
  buckets,       \* the buckets argument: None or a list of (I, O) pairs
  forward_only,  \* the forward_only argument
  state,         \* "not_built", "built_forward_only", "built_trainable",
                 \* "failed"; "base" is an EncoderDecoderModel without a graph
  shared,        \* the creation flags and the variable store of the graph
  graph,         \* what define_graph left on the model
  params,        \* the content of the shared variables
  call           \* the call in progress and its result

vars == <<hyperparams, buckets, forward_only, state, shared, graph, params, call>>

-----------------------------------------------------------------------------
(* Bounds of the model.                                                    *)

\* longest raw token sequence handed to a formatter
MaxLen == 2
\* largest number of examples stored in one bucket of the data
MaxExamples == 2
\* largest configured batch_size
MaxBatch == 2
\* largest configured num_samples
MaxSamples == 3
\* most training steps a behaviour makes
MaxSteps == 2
\* the largest value a caller writes into a variable
MaxValue == 1
\* most times the training driver decays the learning rate
MaxDecays == 1

-----------------------------------------------------------------------------
(* Values of the program.                                                  *)

\* data_utils.PAD_ID, the reserved padding id
PAD_ID == 0

\* token ids: the padding id and as many others as a sequence has places
Tokens == {PAD_ID} \cup 1..MaxLen

\* buckets=None
None == <<>>

\* the value of a call slot when no call has been made
Idle == [op |-> "none"]

\* the raw sequences handed to format_example
Seqs == UNION {[1..n -> Tokens] : n \in 0..MaxLen}

\* the stored sources: k distinct ids in ascending order
Sources == {[i \in 1..k |-> i] : k \in 0..MaxLen}

\* the stored targets: a target may hold the padding id
Targets == UNION {[1..n -> {PAD_ID, 1}] : n \in 0..MaxLen}

\* the (source, target) pairs stored in the data
Examples == {ex \in Sources \X Targets : Len(ex[1]) + Len(ex[2]) <= MaxLen}

Pools == UNION {[1..n -> Examples] : n \in 1..MaxExamples}

\* the bucket list of a bucketed model, sorted as the constructor assumes
BucketList == <<<<1, 1>>, <<2, 3>>>>

-----------------------------------------------------------------------------
(* Python built-ins.                                                       *)

\* a faulty reversal, for comparison: the list as it is
NotReversed(s) == s

\* list(reversed(s))
Reversed(s) == [i \in 1..Len(s) |-> s[Len(s) + 1 - i]]

\* [x] * n, the empty list when n <= 0
Repeat(x, n) == IF n <= 0 THEN <<>> ELSE [i \in 1..n |-> x]

\* rows[batch_idx][length_idx] is defined for every batch_idx in
\* xrange(batch_size); an IndexError otherwise
CanIndex(rows, batch_size, length_idx) ==
  \A batch_idx \in 0..(batch_size - 1) :
     /\ batch_idx + 1 <= Len(rows)
     /\ length_idx + 1 <= Len(rows[batch_idx + 1])

\* np.array([rows[batch_idx][length_idx] for batch_idx in xrange(batch_size)])
Column(rows, batch_size, length_idx) ==
  [b \in 1..batch_size |-> rows[b][length_idx + 1]]

Raised(exception) == [status |-> exception]

-----------------------------------------------------------------------------
(* EncoderDecoderModel: the batch formatters.                              *)

\* encoder_size, decoder_size = self.buckets[bucket_id]
BucketSizes(bks, bucket_id) ==
  [encoder_size |-> bks[bucket_id + 1][1], decoder_size |-> bks[bucket_id + 1][2]]

\* the sizes format_example pads to: the bucket's when bucket_id >= 0, the
\* configured maxima otherwise
ExampleSizes(hp, bks, bucket_id) ==
  IF bucket_id >= 0
    THEN BucketSizes(bks, bucket_id)
    ELSE [encoder_size |-> hp.max_source_length,
          decoder_size |-> hp.max_target_length]

\* the weight of one target position in format_example
FormatExampleWeight(decoder_inputs, batch_idx, length_idx, decoder_size) ==
  IF length_idx = decoder_size - 1
    THEN 0
    ELSE IF decoder_inputs[batch_idx + 1][length_idx + 2] = PAD_ID THEN 0 ELSE 1

FormatExample(hp, bks, encoder_input, decoder_input, bucket_id, original_encoder_input, original_decoder_input, copy_mask) ==
  IF bucket_id >= 0 /\ bks = None
    THEN Raised("TypeError")
    ELSE
      LET sz == ExampleSizes(hp, bks, bucket_id)
          encoder_size == sz.encoder_size
          decoder_size == sz.decoder_size
          encoder_pad == Repeat(PAD_ID, encoder_size - Len(encoder_input))
          encoder_inputs == <<Reversed(encoder_input \o encoder_pad)>>
          copy_mask_pad == Repeat(0, encoder_size - Len(encoder_input))
          original_encoder_inputs ==
            <<Reversed(original_encoder_input \o encoder_pad)>>
          copy_masks == <<Reversed(copy_mask \o copy_mask_pad)>>
          \* created empty and never appended to
          original_decoder_inputs == <<>>
          batch_original_encoder_inputs == <<>>
          decoder_pad == Repeat(PAD_ID, decoder_size - Len(decoder_input))
          decoder_inputs == <<decoder_input \o decoder_pad>>
          batch_size == 1
          \* the loop over xrange(encoder_size) completes
          encoder_loop ==
            \A length_idx \in 0..(encoder_size - 1) :
               hp.use_copy =>
                 /\ CanIndex(original_decoder_inputs, batch_size, length_idx)
                 /\ CanIndex(copy_masks, batch_size, length_idx)
          \* the loop over xrange(decoder_size) completes
          decoder_loop ==
            \A length_idx \in 0..(decoder_size - 1) :
               hp.use_copy =>
                 CanIndex(original_decoder_inputs, batch_size, length_idx)
          batch_encoder_inputs ==
            [t \in 1..encoder_size |-> Column(encoder_inputs, batch_size, t - 1)]
          batch_decoder_inputs ==
            [t \in 1..decoder_size |-> Column(decoder_inputs, batch_size, t - 1)]
          batch_weights ==
            [t \in 1..decoder_size |->
               [b \in 1..batch_size |->
                  FormatExampleWeight(decoder_inputs, b - 1, t - 1, decoder_size)]]
          \* both loops append to batch_original_decoder_inputs
          batch_original_decoder_inputs ==
            [t \in 1..encoder_size |->
               Column(original_decoder_inputs, batch_size, t - 1)]
            \o [t \in 1..decoder_size |->
                  Column(original_decoder_inputs, batch_size, t - 1)]
          batch_copy_masks ==
            [t \in 1..encoder_size |->
               [b \in 1..batch_size |->
                  IF copy_masks[b][t] = 1 THEN 1 ELSE 0]]
      IN  IF ~(encoder_loop /\ decoder_loop)
            THEN Raised("IndexError")
            ELSE IF hp.use_copy
              THEN [status |-> "ok", parts |-> 6,
                    batch_encoder_inputs |-> batch_encoder_inputs,
                    batch_decoder_inputs |-> batch_decoder_inputs,
                    batch_weights |-> batch_weights,
                    batch_original_encoder_inputs |-> batch_original_encoder_inputs,
                    batch_original_decoder_inputs |-> batch_original_decoder_inputs,
                    batch_copy_masks |-> batch_copy_masks]
              ELSE [status |-> "ok", parts |-> 3,
                    batch_encoder_inputs |-> batch_encoder_inputs,
                    batch_decoder_inputs |-> batch_decoder_inputs,
                    batch_weights |-> batch_weights]

\* a faulty weight, for comparison: it looks at the token of the step itself
GetBatchWeightAtStep(decoder_inputs, batch_idx, length_idx, decoder_size) ==
  IF length_idx = decoder_size - 1
    THEN 0
    ELSE IF decoder_inputs[batch_idx + 1][length_idx + 1] = PAD_ID THEN 0 ELSE 1

\* the weight of one target position in get_batch
GetBatchWeight(decoder_inputs, batch_idx, length_idx, decoder_size) ==
  IF length_idx = decoder_size - 1
    THEN 0
    ELSE IF decoder_inputs[batch_idx + 1][length_idx + 2] = PAD_ID THEN 0 ELSE 1

\* pool is data[bucket_id]; choice[k] is the index random.choice draws in the
\* k-th iteration
GetBatch(hp, bks, pool, bucket_id, choice) ==
  IF bks = None
    THEN Raised("TypeError")
    ELSE
      LET sz == BucketSizes(bks, bucket_id)
          encoder_size == sz.encoder_size
          decoder_size == sz.decoder_size
          encoder_inputs ==
            [k \in 1..hp.batch_size |->
               LET encoder_input == pool[choice[k]][1]
                   encoder_pad == Repeat(PAD_ID, encoder_size - Len(encoder_input))
               IN  Reversed(encoder_input \o encoder_pad)]
          decoder_inputs ==
            [k \in 1..hp.batch_size |->
               LET decoder_input == pool[choice[k]][2]
                   decoder_pad_size == decoder_size - Len(decoder_input)
               IN  decoder_input \o Repeat(PAD_ID, decoder_pad_size)]
      IN  [status |-> "ok", parts |-> 3,
           batch_encoder_inputs |->
             [t \in 1..encoder_size |->
                Column(encoder_inputs, hp.batch_size, t - 1)],
           batch_decoder_inputs |->
             [t \in 1..decoder_size |->
                Column(decoder_inputs, hp.batch_size, t - 1)],
           batch_weights |->
             [t \in 1..decoder_size |->
                [b \in 1..hp.batch_size |->
                   GetBatchWeight(decoder_inputs, b - 1, t - 1, decoder_size)]]]

\* the weight of one target position in get_bucket
GetBucketWeight(decoder_inputs, batch_idx, length_idx, decoder_size) ==
  IF length_idx = decoder_size - 1
    THEN 0
    ELSE IF decoder_inputs[batch_idx + 1][length_idx + 2] = PAD_ID THEN 0 ELSE 1

\* the number of columns get_bucket re-indexes
GetBucketColumns(hp, pool) == hp.batch_size

\* pool is data[bucket_id]
GetBucket(hp, bks, pool, bucket_id) ==
  IF bks = None
    THEN Raised("TypeError")
    ELSE
      LET sz == BucketSizes(bks, bucket_id)
          encoder_size == sz.encoder_size
          decoder_size == sz.decoder_size
          encoder_inputs ==
            [i \in 1..Len(pool) |->
               LET encoder_input == pool[i][1]
                   encoder_pad == Repeat(PAD_ID, encoder_size - Len(encoder_input))
               IN  Reversed(encoder_input \o encoder_pad)]
          decoder_inputs ==
            [i \in 1..Len(pool) |->
               LET decoder_input == pool[i][2]
                   decoder_pad_size == decoder_size - Len(decoder_input)
               IN  decoder_input \o Repeat(PAD_ID, decoder_pad_size)]
          columns == GetBucketColumns(hp, pool)
          loops ==
            /\ \A length_idx \in 0..(encoder_size - 1) :
                  CanIndex(encoder_inputs, columns, length_idx)
            /\ \A length_idx \in 0..(decoder_size - 1) :
                  CanIndex(decoder_inputs, columns, length_idx)
      IN  IF ~loops
            THEN Raised("IndexError")
            ELSE [status |-> "ok", parts |-> 3,
                  batch_encoder_inputs |->
                    [t \in 1..encoder_size |->
                       Column(encoder_inputs, columns, t - 1)],
                  batch_decoder_inputs |->
                    [t \in 1..decoder_size |->
                       Column(decoder_inputs, columns, t - 1)],
                  batch_weights |->
                    [t \in 1..decoder_size |->
                       [b \in 1..columns |->
                          GetBucketWeight(decoder_inputs, b - 1, t - 1,
                                          decoder_size)]]]

-----------------------------------------------------------------------------
(* The shared variables: get-or-create.                                    *)

SourceTable == "source_embeddings/embedding"
TargetTable == "target_embeddings/embedding"
ProjW == "output_projection/proj_w"
ProjB == "output_projection/proj_b"

VarNames == {SourceTable, TargetTable, ProjW, ProjB}

\* the model object after EncoderDecoderModel.__init__: no table exists, the
\* flags are False.  variables[n].storage is 0 while n does not exist;
\* created counts the times n was created and initialised
NewShared ==
  [source_embedding_vars |-> FALSE, target_embedding_vars |-> FALSE,
   variables |-> [n \in VarNames |-> [storage |-> 0, created |-> 0]]]

\* the storage a new variable gets: one no variable uses
FreshStorage(variables) ==
  1 + Cardinality({n \in VarNames : variables[n].storage # 0})

\* tf.get_variable(name) in a scope whose reuse flag is `reuse`: with reuse it
\* returns the existing variable and raises when there is none; without, it
\* creates the variable and raises when it exists
GetVariable(variables, name, reuse) ==
  IF reuse
    THEN IF variables[name].storage # 0
           THEN [status |-> "ok", variables |-> variables,
                 storage |-> variables[name].storage]
           ELSE [status |-> "ValueError", variables |-> variables]
    ELSE IF variables[name].storage # 0
           THEN [status |-> "ValueError", variables |-> variables]
           ELSE [status |-> "ok",
                 variables |->
                   [variables EXCEPT
                      ![name] = [storage |-> FreshStorage(variables),
                                 created |-> @.created + 1]],
                 storage |-> FreshStorage(variables)]

\* a faulty source_embeddings, for comparison: the flag is never set
SourceEmbeddingsUnflagged(sh) ==
  LET r == GetVariable(sh.variables, SourceTable, sh.source_embedding_vars)
  IN  IF r.status # "ok"
        THEN [status |-> r.status, shared |-> sh]
        ELSE [status |-> "ok", storage |-> r.storage,
              shared |-> [sh EXCEPT !.variables = r.variables]]

\* source_embeddings(): the scope reuses when the flag is set; the flag is
\* set once get_variable has returned
SourceEmbeddings(sh) ==
  LET r == GetVariable(sh.variables, SourceTable, sh.source_embedding_vars)
  IN  IF r.status # "ok"
        THEN [status |-> r.status, shared |-> sh]
        ELSE [status |-> "ok", storage |-> r.storage,
              shared |-> [sh EXCEPT !.variables = r.variables,
                                    !.source_embedding_vars = TRUE]]

\* target_embeddings()
TargetEmbeddings(sh) ==
  LET r == GetVariable(sh.variables, TargetTable, sh.target_embedding_vars)
  IN  IF r.status # "ok"
        THEN [status |-> r.status, shared |-> sh]
        ELSE [status |-> "ok", storage |-> r.storage,
              shared |-> [sh EXCEPT !.variables = r.variables,
                                    !.target_embedding_vars = TRUE]]

\* output_projection(): create proj_w and proj_b; on a ValueError switch the
\* scope to reuse and get both again
OutputProjection(sh) ==
  LET w == GetVariable(sh.variables, ProjW, FALSE)
      b == GetVariable(w.variables, ProjB, FALSE)
      tried == IF w.status = "ok" THEN b.variables ELSE w.variables
      rw == GetVariable(tried, ProjW, TRUE)
      rb == GetVariable(rw.variables, ProjB, TRUE)
  IN  IF w.status = "ok" /\ b.status = "ok"
        THEN [status |-> "ok", storage |-> <<w.storage, b.storage>>,
              shared |-> [sh EXCEPT !.variables = b.variables]]
        ELSE IF rw.status = "ok" /\ rb.status = "ok"
          THEN [status |-> "ok", storage |-> <<rw.storage, rb.storage>>,
                shared |-> [sh EXCEPT !.variables = rb.variables]]
          ELSE [status |-> "ValueError",
                shared |-> [sh EXCEPT !.variables = tried]]

-----------------------------------------------------------------------------
(* Seq2TreeModel: the graph.                                               *)

\* a faulty use_sampled_softmax, for comparison: num_samples may equal the
\* vocabulary size
UseSampledSoftmaxAtMost(hp) ==
  hp.num_samples > 0 /\ hp.num_samples <= hp.target_vocab_size

\* use_sampled_softmax
UseSampledSoftmax(hp) ==
  hp.num_samples > 0 /\ hp.num_samples < hp.target_vocab_size

\* the loss function softmax_loss() returns when use_sampled_softmax: it
\* closes over the (w, b) that output_projection() returned as p
SampledLoss(p) ==
  IF p.status # "ok"
    THEN [status |-> p.status, shared |-> p.shared]
    ELSE [status |-> "ok", shared |-> p.shared,
          loss_function |-> [name |-> "sampled_loss", weights |-> p.storage]]

\* softmax_loss(): the sampled loss reads the projection
SoftmaxLoss(sh, hp) ==
  IF UseSampledSoftmax(hp)
    THEN SampledLoss(OutputProjection(sh))
    ELSE [status |-> "ok", shared |-> sh,
          loss_function |->
            [name |-> "softmax_cross_entropy_with_logits", weights |-> <<>>]]

\* decoder.define_graph returns one output for each decoder input it is given
DecoderOutputs(decoder_inputs) == decoder_inputs

Min(a, b) == IF a <= b THEN a ELSE b

\* sequence_loss(logits, loss_function): targets and weights are cut to
\* len(logits), zip pairs logit i with target i (decoder slot i + 1) and
\* weight i, and the sum of all the cut weights normalises
SequenceLoss(hp, logits, loss_function) ==
  LET targets == Min(logits, hp.max_target_length)
      weights == Min(logits, hp.max_target_length + 1)
  IN  [loss_function |-> loss_function,
       terms |-> Min(logits, Min(targets, weights)),
       weights |-> weights]

\* a faulty decoder call, for comparison: always autoregressive
FeedPreviousAlways(fwd_only) == TRUE

\* decoder.define_graph(..., feed_previous=forward_only)
FeedPrevious(fwd_only) == fwd_only

\* outputs[i], the i-th output of the decoder
DecoderOutput(i) == [kind |-> "decoder_output", step |-> i]

\* tf.matmul(output, W) + b with (W, b) the projection
ProjectedOutput(output, projection) ==
  [kind |-> "matmul_add", input |-> output, w |-> projection[1],
   b |-> projection[2]]

\* the end of encode_decode: the losses were computed with the loss function
\* l, and output_projection() returned p for the projected outputs
ProjectOutputs(hp, encoder_inputs, source_embeddings, decoder_inputs, target_embeddings, fwd_only, l, p) ==
  IF p.status # "ok"
    THEN [status |-> p.status, shared |-> p.shared]
    ELSE [status |-> "ok", shared |-> p.shared,
          bucket_graph |->
            [encoder_inputs |-> encoder_inputs,
             decoder_inputs |-> decoder_inputs,
             source_embeddings |-> source_embeddings,
             target_embeddings |-> target_embeddings,
             feed_previous |-> FeedPrevious(fwd_only),
             losses |-> SequenceLoss(hp, DecoderOutputs(decoder_inputs),
                                     l.loss_function),
             \* the logits handed to sequence_loss: outputs
             loss_logits |-> [i \in 1..DecoderOutputs(decoder_inputs) |->
                                DecoderOutput(i - 1)],
             projection |-> p.storage,
             projected_outputs |->
               [i \in 1..DecoderOutputs(decoder_inputs) |->
                  ProjectedOutput(DecoderOutput(i - 1), p.storage)],
             outputs |-> DecoderOutputs(decoder_inputs)]]

\* encode_decode from "Losses." on: softmax_loss() returned l
ComputeLosses(hp, encoder_inputs, source_embeddings, decoder_inputs, target_embeddings, fwd_only, l) ==
  IF l.status # "ok"
    THEN [status |-> l.status, shared |-> l.shared]
    ELSE ProjectOutputs(hp, encoder_inputs, source_embeddings, decoder_inputs,
                        target_embeddings, fwd_only, l,
                        OutputProjection(l.shared))

\* encode_decode over the first `encoder_inputs` encoder slots and the first
\* `decoder_inputs` decoder slots
EncodeDecode(sh, hp, encoder_inputs, source_embeddings, decoder_inputs, target_embeddings, fwd_only) ==
  ComputeLosses(hp, encoder_inputs, source_embeddings, decoder_inputs,
                target_embeddings, fwd_only, SoftmaxLoss(sh, hp))

\* the arguments of encode_decode are evaluated in order: source_embeddings()
\* returned s, target_embeddings() returned t.  The slices encoder_inputs[:I]
\* and decoder_inputs[:O] are as long as the lists allow
BucketEncodeDecode(hp, bucket, fwd_only, s, t) ==
  IF t.status # "ok"
    THEN [status |-> t.status, shared |-> t.shared]
    ELSE EncodeDecode(t.shared, hp,
                      Min(bucket[1], hp.max_source_length), s.storage,
                      Min(bucket[2], hp.max_target_length + 1), t.storage,
                      fwd_only)

BucketTargetEmbeddings(hp, bucket, fwd_only, s) ==
  IF s.status # "ok"
    THEN [status |-> s.status, shared |-> s.shared]
    ELSE BucketEncodeDecode(hp, bucket, fwd_only, s, TargetEmbeddings(s.shared))

\* what one pass of the bucket loop of define_graph adds
BuildBucket(sh, hp, bucket, fwd_only) ==
  BucketTargetEmbeddings(hp, bucket, fwd_only, SourceEmbeddings(sh))

\* the bucket loop from bucket i on; built holds the graphs of the buckets
\* before i, and g is what the pass of bucket i gave
RECURSIVE BuildBuckets(_, _, _, _, _, _)
RECURSIVE AppendBucket(_, _, _, _, _, _)
AppendBucket(hp, bks, i, fwd_only, built, g) ==
  IF g.status # "ok"
    THEN [status |-> g.status, shared |-> g.shared]
    ELSE BuildBuckets(g.shared, hp, bks, i + 1, fwd_only,
                      Append(built, g.bucket_graph))

BuildBuckets(sh, hp, bks, i, fwd_only, built) ==
  IF i > Len(bks)
    THEN [status |-> "ok", shared |-> sh, bucket_graphs |-> built]
    ELSE AppendBucket(hp, bks, i, fwd_only, built,
                      BuildBucket(sh, hp, bks[i], fwd_only))

EncoderTopologies == {"rnn", "birnn"}
DecoderTopologies == {"basic_tree"}
Optimizers == {"sgd", "adam"}

\* a faulty build, for comparison: the backward pass is always built
AlwaysBackwardPass(fwd_only) == TRUE

\* "if not forward_only": the backward pass is built
BackwardPass(fwd_only) == ~fwd_only

\* a faulty optimizer branch, for comparison: every optimizer is accepted
OptimizerUnchecked(hp, fwd_only) == TRUE

\* the optimizer branch of define_graph: looked at only when the backward pass
\* is built
OptimizerRecognized(hp, fwd_only) ==
  BackwardPass(fwd_only) => hp.optimizer \in Optimizers

\* the slices the forward graphs are built over: the buckets, or every encoder
\* slot and every decoder slot when there are none
GraphBuckets(hp, bks) ==
  IF bks # None
    THEN bks
    ELSE <<<<hp.max_source_length, hp.max_target_length + 1>>>>

\* define_graph from "Gradients and SGD updates" on: the forward graphs are b
BuildBackward(hp, bks, fwd_only, b) ==
  IF b.status # "ok"
    THEN [status |-> b.status, message |-> "get_variable", shared |-> b.shared]
    ELSE IF ~OptimizerRecognized(hp, fwd_only)
      THEN [status |-> "ValueError", message |-> "Unrecognized optimizer type.",
            shared |-> b.shared]
      ELSE [status |-> "ok", shared |-> b.shared,
            graph |->
              [encoder_inputs |-> hp.max_source_length,
               decoder_inputs |-> hp.max_target_length + 1,
               target_weights |-> hp.max_target_length + 1,
               targets |-> hp.max_target_length,
               original_encoder_inputs |->
                 IF hp.use_copy THEN hp.max_source_length ELSE 0,
               copy_masks |->
                 IF hp.use_copy THEN hp.max_source_length ELSE 0,
               original_decoder_inputs |->
                 IF hp.use_copy THEN hp.max_target_length ELSE 0,
               bucketed |-> bks # None,
               bucket_graphs |-> b.bucket_graphs,
               \* updates and gradient_norms exist
               updates |-> BackwardPass(fwd_only)]]

\* define_graph from the forward graphs on: the decoder was given the
\* projection d that output_projection() returned
BuildForward(hp, bks, fwd_only, d) ==
  IF d.status # "ok"
    THEN [status |-> d.status, message |-> "get_variable", shared |-> d.shared]
    ELSE BuildBackward(hp, bks, fwd_only,
                       BuildBuckets(d.shared, hp, GraphBuckets(hp, bks), 1,
                                    fwd_only, <<>>))

\* Seq2TreeModel.__init__: the base constructor, then define_graph
DefineGraph(hp, bks, fwd_only) ==
  IF hp.encoder_topology \notin EncoderTopologies
    THEN [status |-> "ValueError", message |-> "Unrecognized encoder type.",
          shared |-> NewShared]
    ELSE IF hp.decoder_topology \notin DecoderTopologies
      THEN [status |-> "ValueError", message |-> "Unrecognized decoder type.",
            shared |-> NewShared]
      ELSE BuildForward(hp, bks, fwd_only, OutputProjection(NewShared))

\* the model object before define_graph has run
NoGraph == [bucket_graphs |-> <<>>]

\* the content of the variables: nothing is stored before construction
\* applied counts the update operations applied to the trainable parameters,
\* learning_rate the decays of the learning rate; global_epoch is the counter
NoParams ==
  [values |-> <<>>, applied |-> 0, written |-> [n \in VarNames |-> 0],
   learning_rate |-> 0, global_epoch |-> 0]

-----------------------------------------------------------------------------
(* Seq2TreeModel.step.                                                     *)

\* Python's None in a returned tuple
NoneValue == [kind |-> "None"]

\* the tensors of the graph of bucket b (0-based; -1 is the graph built
\* without buckets)
Update(b) == [kind |-> "update", bucket |-> b]
GradientNorm(b) == [kind |-> "gradient_norm", bucket |-> b]
Loss(b) == [kind |-> "loss", bucket |-> b]
Logit(b, l) == [kind |-> "logit", bucket |-> b, step |-> l]

\* a fetch that is itself a list of fetches
Nested(items) == [kind |-> "list", items |-> items]

\* a faulty check of the sizes, for comparison: lists longer than needed pass
\* and are cut
CheckSizesAtLeast(hp, bks, fe, bucket_id) ==
  IF bucket_id = -1
    THEN IF fe.encoder_inputs < hp.max_source_length
           THEN [status |-> "AssertionError", message |-> "encoder_size"]
           ELSE IF fe.decoder_inputs < hp.max_target_length
             THEN [status |-> "AssertionError", message |-> "decoder_size"]
             ELSE [status |-> "ok", encoder_size |-> hp.max_source_length,
                   decoder_size |-> hp.max_target_length]
    ELSE IF bks = None
      THEN [status |-> "TypeError", message |-> "buckets"]
      ELSE
        LET sz == BucketSizes(bks, bucket_id)
        IN  IF \/ fe.encoder_inputs < sz.encoder_size
               \/ fe.decoder_inputs < sz.decoder_size
               \/ fe.target_weights < sz.decoder_size
              THEN [status |-> "ValueError", message |-> "length"]
              ELSE [status |-> "ok", encoder_size |-> sz.encoder_size,
                    decoder_size |-> sz.decoder_size]

\* the check of the sizes: the lengths of the lists of formatted_example
\* against the maxima (asserted) or against the bucket (raised)
CheckSizes(hp, bks, fe, bucket_id) ==
  IF bucket_id = -1
    THEN IF fe.encoder_inputs # hp.max_source_length
           THEN [status |-> "AssertionError", message |-> "encoder_size"]
           ELSE IF fe.decoder_inputs # hp.max_target_length
             THEN [status |-> "AssertionError", message |-> "decoder_size"]
             ELSE [status |-> "ok", encoder_size |-> fe.encoder_inputs,
                   decoder_size |-> fe.decoder_inputs]
    ELSE IF bks = None
      THEN [status |-> "TypeError", message |-> "buckets"]
      ELSE
        LET sz == BucketSizes(bks, bucket_id)
        IN  IF fe.encoder_inputs # sz.encoder_size
              THEN [status |-> "ValueError",
                    message |-> "Encoder length must be equal to the one in bucket"]
              ELSE IF fe.decoder_inputs # sz.decoder_size
                THEN [status |-> "ValueError",
                      message |-> "Decoder length must be equal to the one in bucket"]
                ELSE IF fe.target_weights # sz.decoder_size
                  THEN [status |-> "ValueError",
                        message |-> "Weights length must be equal to the one in bucket"]
                  ELSE [status |-> "ok", encoder_size |-> sz.encoder_size,
                        decoder_size |-> sz.decoder_size]

\* the input slots of the graph: a kind and a 0-based index
Slots(kind, n) == {<<kind, l>> : l \in 0..(n - 1)}

\* the building of input_feed completes: every list and every list of
\* placeholders it indexes is long enough
CanFeed(hp, g, fe, encoder_size, decoder_size) ==
  /\ encoder_size <= g.encoder_inputs
  /\ decoder_size <= g.decoder_inputs
  /\ decoder_size <= g.target_weights
  /\ decoder_size <= fe.target_weights
  /\ hp.use_copy =>
       /\ encoder_size <= g.original_encoder_inputs
       /\ encoder_size <= fe.original_encoder_inputs
       /\ encoder_size <= g.copy_masks
       /\ encoder_size <= fe.copy_masks
       /\ decoder_size <= g.original_decoder_inputs
       /\ decoder_size <= fe.original_decoder_inputs
  \* last_target = self.decoder_inputs[decoder_size]
  /\ decoder_size < g.decoder_inputs

\* the slots input_feed binds
InputFeed(hp, encoder_size, decoder_size) ==
  Slots("encoder", encoder_size)
  \cup Slots("decoder", decoder_size)
  \cup Slots("weight", decoder_size)
  \cup (IF hp.use_copy
          THEN Slots("original_encoder", encoder_size)
               \cup Slots("copy_mask", encoder_size)
               \cup Slots("original_decoder", decoder_size)
          ELSE {})
  \cup {<<"decoder", decoder_size>>}

\* the slots the loss and the outputs of one bucket graph are computed from:
\* the encoder and decoder inputs handed to encode_decode, the targets
\* (decoder slot i + 1 for term i) and every weight sequence_loss adds up
Placeholders(bg) ==
  Slots("encoder", bg.encoder_inputs)
  \cup Slots("decoder", bg.decoder_inputs)
  \cup {<<"decoder", i + 1>> : i \in 0..(bg.losses.terms - 1)}
  \cup Slots("weight", bg.losses.weights)

\* output_feed: the fetches, or the exception raised while listing them
OutputFeed(g, bucket_id, decoder_size, fwd_only) ==
  IF ~fwd_only
    THEN IF ~g.updates
           THEN [status |-> "AttributeError"]
           ELSE IF bucket_id = -1
             THEN IF g.bucketed
                    \* self.updates, self.gradient_norms, self.losses are lists
                    THEN [status |-> "ok", nested |-> TRUE,
                          graphs |-> 1..Len(g.bucket_graphs),
                          fetches |->
                            <<Nested([i \in 1..Len(g.bucket_graphs) |-> Update(i - 1)]),
                              Nested([i \in 1..Len(g.bucket_graphs) |->
                                        GradientNorm(i - 1)]),
                              Nested([i \in 1..Len(g.bucket_graphs) |-> Loss(i - 1)])>>]
                    ELSE [status |-> "ok", nested |-> FALSE, graphs |-> {1},
                          fetches |-> <<Update(-1), GradientNorm(-1), Loss(-1)>>]
             ELSE [status |-> "ok", nested |-> FALSE, graphs |-> {bucket_id + 1},
                   fetches |-> <<Update(bucket_id), GradientNorm(bucket_id),
                                 Loss(bucket_id)>>]
    ELSE IF bucket_id = -1
      THEN IF g.bucketed
             \* self.losses is a list, self.outputs[l] the outputs of bucket l
             THEN IF decoder_size > Len(g.bucket_graphs)
                    THEN [status |-> "IndexError"]
                    ELSE [status |-> "ok", nested |-> TRUE,
                          graphs |-> 1..Len(g.bucket_graphs),
                          fetches |->
                            <<Nested([i \in 1..Len(g.bucket_graphs) |-> Loss(i - 1)])>>
                            \o [l \in 1..decoder_size |->
                                  Nested([k \in 1..g.bucket_graphs[l].outputs |->
                                            Logit(l - 1, k - 1)])]]
             ELSE IF decoder_size > g.bucket_graphs[1].outputs
               THEN [status |-> "IndexError"]
               ELSE [status |-> "ok", nested |-> FALSE, graphs |-> {1},
                     fetches |-> <<Loss(-1)>>
                                 \o [l \in 1..decoder_size |-> Logit(-1, l - 1)]]
      ELSE IF decoder_size > g.bucket_graphs[bucket_id + 1].outputs
        THEN [status |-> "IndexError"]
        ELSE [status |-> "ok", nested |-> FALSE, graphs |-> {bucket_id + 1},
              fetches |-> <<Loss(bucket_id)>>
                          \o [l \in 1..decoder_size |-> Logit(bucket_id, l - 1)]]

\* a faulty return, for comparison: the training values are taken one place
\* early
StepReturnShifted(outputs, fwd_only) ==
  IF ~fwd_only
    THEN <<outputs[1], outputs[2], NoneValue>>
    ELSE <<NoneValue, outputs[1], SubSeq(outputs, 2, Len(outputs))>>

\* the tuple step returns from the values session.run fetched
StepReturn(outputs, fwd_only) ==
  IF ~fwd_only
    THEN <<outputs[2], outputs[3], NoneValue>>
    ELSE <<NoneValue, outputs[1], SubSeq(outputs, 2, Len(outputs))>>

\* a faulty fetch, for comparison: the update operations are always fetched
UpdatesRunAlways(graphs, fwd_only) == graphs

\* the bucket graphs whose update operation is among the fetches session.run
\* evaluates: those of output_feed when not forward_only, none otherwise
UpdatesRun(graphs, fwd_only) == IF fwd_only THEN {} ELSE graphs

\* a step that raised: nothing was run
StepRaised(exception, validated) ==
  [status |-> exception, validated |-> validated, executed |-> FALSE,
   updates |-> {}]

\* step(session, formatted_example, bucket_id, forward_only).  fe holds the
\* lengths of the lists of formatted_example; nested_fetches tells whether the
\* session accepts a fetch that is a list
Step(hp, bks, g, fe, bucket_id, fwd_only, nested_fetches) ==
  LET c == CheckSizes(hp, bks, fe, bucket_id)
  IN  IF c.status # "ok"
        THEN StepRaised(c.status, FALSE)
        ELSE IF ~CanFeed(hp, g, fe, c.encoder_size, c.decoder_size)
          THEN StepRaised("IndexError", TRUE)
          ELSE
            LET o == OutputFeed(g, bucket_id, c.decoder_size, fwd_only)
                needed == UNION {Placeholders(g.bucket_graphs[i]) : i \in o.graphs}
            IN  IF o.status # "ok"
                  THEN StepRaised(o.status, TRUE)
                  ELSE IF o.nested /\ ~nested_fetches
                    THEN StepRaised("TypeError", TRUE)
                    ELSE IF ~(needed \subseteq
                                InputFeed(hp, c.encoder_size, c.decoder_size))
                      THEN StepRaised("InvalidArgumentError", TRUE)
                      ELSE [status |-> "ok", validated |-> TRUE,
                            executed |-> TRUE,
                            \* the bucket graphs session.run evaluated
                            graphs |-> o.graphs,
                            updates |-> UpdatesRun(o.graphs, fwd_only),
                            value |-> StepReturn(o.fetches, fwd_only)]

-----------------------------------------------------------------------------
(* The formatters as a state machine: a caller holding a model calls one   *)
(* formatter and takes its result.                                         *)

\* the hyperparameters every model of this development shares
BaseHyperparams ==
  [encoder_topology |-> "rnn", decoder_topology |-> "basic_tree",
   optimizer |-> "sgd", use_copy |-> FALSE, batch_size |-> 1,
   num_samples |-> 0, target_vocab_size |-> 2,
   max_source_length |-> 2, max_target_length |-> 3]

\* the models whose formatters are called: bucketed with every batch size,
\* bucketed with copy support, and unbucketed
FormatterModels ==
  {<<[BaseHyperparams EXCEPT !.batch_size = n], BucketList>> : n \in 1..MaxBatch}
  \cup {<<[BaseHyperparams EXCEPT !.use_copy = TRUE], BucketList>>,
        <<BaseHyperparams, None>>}

\* the bucket ids a caller passes: -1 is "no bucket"
BucketIds == 0..(Len(BucketList) - 1)

\* the original (pre-normalization) form of a sequence: as long as the sequence
Originals(s) == {s, Repeat(1, Len(s))}

\* the copy arguments of format_example: None without copy support
CopyArguments(hp, encoder_input, decoder_input) ==
  IF hp.use_copy
    THEN {[original_encoder_input |-> oe, original_decoder_input |-> od,
           copy_mask |-> m] :
            oe \in Originals(encoder_input), od \in Originals(decoder_input),
            m \in [1..Len(encoder_input) -> {0, 1}]}
    ELSE {[original_encoder_input |-> None, original_decoder_input |-> None,
           copy_mask |-> None]}

InitFormatter ==
  /\ \E m \in FormatterModels : hyperparams = m[1] /\ buckets = m[2]
  /\ forward_only = FALSE
  /\ state = "built_trainable"
  /\ shared = DefineGraph(hyperparams, buckets, forward_only).shared
  /\ graph = DefineGraph(hyperparams, buckets, forward_only).graph
  /\ params = NoParams
  /\ call = Idle

CallFormatExample ==
  /\ call = Idle
  /\ \E encoder_input \in Seqs, decoder_input \in Seqs,
        bucket_id \in {-1} \cup BucketIds :
       \E c \in CopyArguments(hyperparams, encoder_input, decoder_input) :
          call' = [op |-> "format_example", bucket_id |-> bucket_id,
                   examples |-> <<<<encoder_input, decoder_input>>>>,
                   copy |-> c,
                   result |-> FormatExample(hyperparams, buckets, encoder_input,
                                            decoder_input, bucket_id,
                                            c.original_encoder_input,
                                            c.original_decoder_input,
                                            c.copy_mask)]
  /\ UNCHANGED <<hyperparams, buckets, forward_only, state, shared, graph, params>>

\* examples lists the example drawn for each column
CallGetBatch ==
  /\ call = Idle
  /\ \E pool \in Pools, bucket_id \in BucketIds :
       \E choice \in [1..hyperparams.batch_size -> 1..Len(pool)] :
          call' = [op |-> "get_batch", bucket_id |-> bucket_id,
                   pool |-> pool,
                   examples |-> [k \in 1..hyperparams.batch_size |->
                                   pool[choice[k]]],
                   result |-> GetBatch(hyperparams, buckets, pool, bucket_id,
                                       choice)]
  /\ UNCHANGED <<hyperparams, buckets, forward_only, state, shared, graph, params>>

CallGetBucket ==
  /\ call = Idle
  /\ \E pool \in Pools, bucket_id \in BucketIds :
       call' = [op |-> "get_bucket", bucket_id |-> bucket_id,
                pool |-> pool, examples |-> pool,
                result |-> GetBucket(hyperparams, buckets, pool, bucket_id)]
  /\ UNCHANGED <<hyperparams, buckets, forward_only, state, shared, graph, params>>

\* the caller takes the result; the next call starts afresh
Return ==
  /\ call # Idle
  /\ call' = Idle
  /\ UNCHANGED <<hyperparams, buckets, forward_only, state, shared, graph, params>>

NextFormatter ==
  \/ CallFormatExample
  \/ CallGetBatch
  \/ CallGetBucket
  \/ Return

SpecFormatter == InitFormatter /\ [][NextFormatter]_vars

-----------------------------------------------------------------------------
(* Properties of the formatters.                                           *)

FormatterOps == {"format_example", "get_batch", "get_bucket"}

\* a formatter has returned a batch
Formatted == call.op \in FormatterOps /\ call.result.status = "ok"

\* the sizes the formatter of the current call pads to
CallSizes == ExampleSizes(hyperparams, buckets, call.bucket_id)

\* the number of columns of the returned batch
CallColumns ==
  IF Len(call.result.batch_weights) > 0
    THEN Len(call.result.batch_weights[1])
    ELSE 0

\* C1: in the batch a formatter returns, the weight of column b at step t is
\* 0 iff t is the last step or the returned decoder input of that column at
\* t+1 is PAD_ID, and 1 in every other case.
C1_WeightRule ==
  Formatted =>
    LET r == call.result
        decoder_size == CallSizes.decoder_size
    IN  /\ Len(r.batch_weights) = decoder_size
        /\ Len(r.batch_decoder_inputs) = decoder_size
        /\ \A t \in 1..decoder_size :
             /\ Len(r.batch_weights[t]) = Len(r.batch_decoder_inputs[t])
             /\ \A b \in 1..Len(r.batch_weights[t]) :
                  /\ r.batch_weights[t][b] \in {0, 1}
                  /\ r.batch_weights[t][b] = 0 <=>
                       \/ t = decoder_size
                       \/ r.batch_decoder_inputs[t + 1][b] = PAD_ID

\* a get_bucket batch with a column whose weights are 1 at the first step and
\* 0 at the second because the next token is padding, not because it is last
C1_Witness ==
  /\ Formatted
  /\ call.op = "get_bucket"
  /\ CallSizes.decoder_size = 3
  /\ \E b \in 1..CallColumns :
       /\ call.result.batch_weights[1][b] = 1
       /\ call.result.batch_weights[2][b] = 0
       /\ call.result.batch_decoder_inputs[3][b] = PAD_ID

\* the encoder column of a source: pads first, then the source backwards
ExpectedEncoder(source, encoder_size) ==
  [t \in 1..encoder_size |->
     IF t <= encoder_size - Len(source)
       THEN PAD_ID
       ELSE source[encoder_size - t + 1]]

\* the decoder column of a target: the target, then pads
ExpectedDecoder(target, decoder_size) ==
  [t \in 1..decoder_size |->
     IF t <= Len(target) THEN target[t] ELSE PAD_ID]

Fits(example, sizes) ==
  /\ Len(example[1]) <= sizes.encoder_size
  /\ Len(example[2]) <= sizes.decoder_size

\* the current formatter call is one that returns a batch: the buckets it
\* indexes exist, format_example is called without copy support, and get_bucket
\* on a bucket of at least batch_size examples
Returns ==
  /\ call.op \in FormatterOps
  /\ (call.op = "format_example" /\ call.bucket_id < 0) \/ buckets # None
  /\ call.op = "format_example" => ~hyperparams.use_copy
  /\ call.op = "get_bucket" => hyperparams.batch_size <= Len(call.pool)

C3_AllExamples ==
  (call.op = "get_bucket" /\ buckets # None) =>
    /\ call.result.status = "ok"
    /\ LET r == call.result
           sizes == CallSizes
           n == Len(call.pool)
       IN  /\ \A t \in 1..sizes.encoder_size : Len(r.batch_encoder_inputs[t]) = n
           /\ \A t \in 1..sizes.decoder_size :
                /\ Len(r.batch_decoder_inputs[t]) = n
                /\ Len(r.batch_weights[t]) = n
           /\ \A i \in 1..n :
                Fits(call.pool[i], sizes) =>
                  /\ \A t \in 1..sizes.encoder_size :
                       r.batch_encoder_inputs[t][i] =
                         ExpectedEncoder(call.pool[i][1], sizes.encoder_size)[t]
                  /\ \A t \in 1..sizes.decoder_size :
                       r.batch_decoder_inputs[t][i] =
                         ExpectedDecoder(call.pool[i][2], sizes.decoder_size)[t]

\* C4 (as claimed): with copy support, format_example returns six parts, the
\* original encoder inputs and the copy mask padded and reversed like the
\* encoder input, the original decoder inputs padded like the decoder input.
C4_CopyParts ==
  (/\ call.op = "format_example"
   /\ hyperparams.use_copy
   /\ (call.bucket_id >= 0 => buckets # None)) =>
    /\ call.result.status = "ok"
    /\ LET r == call.result
           sizes == CallSizes
           source == call.examples[1][1]
           target == call.examples[1][2]
           pad == sizes.encoder_size - Len(source)
       IN  /\ r.parts = 6
           /\ Len(r.batch_original_encoder_inputs) = sizes.encoder_size
           /\ Len(r.batch_copy_masks) = sizes.encoder_size
           /\ Len(r.batch_original_decoder_inputs) = sizes.decoder_size
           /\ Fits(call.examples[1], sizes) =>
                /\ \A t \in 1..sizes.encoder_size :
                     /\ r.batch_original_encoder_inputs[t] =
                          <<ExpectedEncoder(call.copy.original_encoder_input,
                                            sizes.encoder_size)[t]>>
                     /\ r.batch_copy_masks[t] =
                          <<IF t <= pad THEN 0
                            ELSE call.copy.copy_mask[sizes.encoder_size - t + 1]>>
                /\ \A t \in 1..sizes.decoder_size :
                     r.batch_original_decoder_inputs[t] =
                       <<ExpectedDecoder(call.copy.original_decoder_input,
                                         sizes.decoder_size)[t]>>

-----------------------------------------------------------------------------
(* The model as a state machine: it is constructed once, then stepped.     *)

ModelHyperparams ==
  {[BaseHyperparams EXCEPT !.encoder_topology = e, !.decoder_topology = d,
                           !.optimizer = o] :
      e \in EncoderTopologies \cup {"cnn"},
      d \in DecoderTopologies \cup {"basic_rnn"},
      o \in Optimizers \cup {"rmsprop"}}
  \cup {[BaseHyperparams EXCEPT !.num_samples = n] : n \in -1..MaxSamples}
  \cup {[BaseHyperparams EXCEPT !.use_copy = TRUE]}

Built == {"built_forward_only", "built_trainable"}

Init ==
  /\ hyperparams \in ModelHyperparams
  /\ buckets \in {None, BucketList}
  /\ forward_only \in BOOLEAN
  /\ state = "not_built"
  /\ shared = NewShared
  /\ graph = NoGraph
  /\ params = NoParams
  /\ call = Idle

\* the content of the variables once the constructor has run: every created
\* variable holds its initial value 0
InitialParams(sh) ==
  [NoParams EXCEPT !.values = [k \in 1..(FreshStorage(sh.variables) - 1) |-> 0]]

\* Seq2TreeModel(hyperparams, buckets, forward_only)
Construct ==
  /\ state = "not_built"
  /\ call = Idle
  /\ LET r == DefineGraph(hyperparams, buckets, forward_only)
     IN  /\ state' = IF r.status # "ok" THEN "failed"
                     ELSE IF forward_only THEN "built_forward_only"
                     ELSE "built_trainable"
         /\ shared' = r.shared
         /\ graph' = IF r.status = "ok" THEN r.graph ELSE NoGraph
         /\ params' = InitialParams(r.shared)
         /\ call' = [op |-> "__init__",
                     result |-> IF r.status = "ok"
                                  THEN [status |-> "ok"]
                                  ELSE [status |-> r.status,
                                        message |-> r.message]]
  /\ UNCHANGED <<hyperparams, buckets, forward_only>>

\* the lengths a caller gives a list that should have n elements
StepLengths(n) == {k \in {n - 1, n, n + 1} : k >= 0}

\* the sizes the lists of a step call are measured against
StepSizes(hp, bks, bucket_id) ==
  IF bucket_id >= 0 /\ bks # None
    THEN BucketSizes(bks, bucket_id)
    ELSE [encoder_size |-> hp.max_source_length,
          decoder_size |-> hp.max_target_length]

\* the lengths of the lists of formatted_example: three lists, six with copy
FormattedExamples(hp, sizes) ==
  LET E == StepLengths(sizes.encoder_size)
      D == StepLengths(sizes.decoder_size)
  IN  [encoder_inputs : E, decoder_inputs : D, target_weights : D,
       original_encoder_inputs : IF hp.use_copy THEN E ELSE {0},
       original_decoder_inputs : IF hp.use_copy THEN D ELSE {0},
       copy_masks : IF hp.use_copy THEN E ELSE {0}]

\* model.step(session, formatted_example, bucket_id, forward_only)
CallStep ==
  /\ state \in Built
  /\ call = Idle
  /\ \E bucket_id \in {-1} \cup BucketIds, fwd \in BOOLEAN, nested \in BOOLEAN :
       \E fe \in FormattedExamples(hyperparams,
                                   StepSizes(hyperparams, buckets, bucket_id)) :
          /\ fwd \/ params.applied < MaxSteps
          /\ LET r == Step(hyperparams, buckets, graph, fe, bucket_id, fwd, nested)
             IN  /\ call' = [op |-> "step", bucket_id |-> bucket_id,
                             forward_only |-> fwd, formatted_example |-> fe,
                             result |-> r]
                 \* the update operations run by the session change the variables
                 /\ params' = [params EXCEPT
                                 !.applied = @ + Cardinality(r.updates)]
  /\ UNCHANGED <<hyperparams, buckets, forward_only, state, shared, graph>>

\* the training driver runs learning_rate_decay_op
DecayLearningRate ==
  /\ state \in Built
  /\ call = Idle
  /\ params.learning_rate < MaxDecays
  /\ params' = [params EXCEPT !.learning_rate = @ + 1]
  /\ UNCHANGED <<hyperparams, buckets, forward_only, state, shared, graph, call>>

Next ==
  \/ Construct
  \/ CallStep
  \/ DecayLearningRate
  \/ Return

Spec == Init /\ [][Next]_vars

-----------------------------------------------------------------------------
(* Properties of step and of the construction.                             *)

\* the storage of the variable `name`
Storage(name) == shared.variables[name].storage

\* the lists of the current step call have exactly the lengths step checks
LengthsMatch ==
  LET fe == call.formatted_example
      sz == StepSizes(hyperparams, buckets, call.bucket_id)
  IN  /\ fe.encoder_inputs = sz.encoder_size
      /\ fe.decoder_inputs = sz.decoder_size
      /\ call.bucket_id >= 0 => fe.target_weights = sz.decoder_size

\* C5: step checks the lengths before it runs anything: without a bucket a
\* wrong encoder or decoder length is an AssertionError, with a bucket a wrong
\* encoder, decoder or weight length is a ValueError, in both cases nothing is
\* run; lengths that match pass the check.
C5_Validation ==
  call.op = "step" =>
    LET r == call.result
    IN  /\ (call.bucket_id = -1 /\ ~LengthsMatch) =>
              r.status = "AssertionError" /\ ~r.validated /\ ~r.executed
        /\ (call.bucket_id >= 0 /\ buckets # None /\ ~LengthsMatch) =>
              r.status = "ValueError" /\ ~r.validated /\ ~r.executed
        /\ ((call.bucket_id >= 0 => buckets # None) /\ LengthsMatch) =>
              r.validated
        /\ r.executed => (r.validated /\ LengthsMatch)

\* step without a bucket, the encoder list one element short
C5_Witness ==
  /\ call.op = "step"
  /\ call.bucket_id = -1
  /\ call.formatted_example.encoder_inputs = hyperparams.max_source_length - 1
  /\ call.result.status = "AssertionError"

\* the copy lists of the current step call are long enough to be fed
CopyListsFit ==
  LET fe == call.formatted_example
      sz == StepSizes(hyperparams, buckets, call.bucket_id)
  IN  hyperparams.use_copy =>
        /\ fe.original_encoder_inputs >= sz.encoder_size
        /\ fe.copy_masks >= sz.encoder_size
        /\ fe.original_decoder_inputs >= sz.decoder_size

\* the build mode is the one the constructor was given
C6_ModeAsBuilt ==
  state \in Built =>
    state = IF forward_only THEN "built_forward_only" ELSE "built_trainable"

\* a forward-only step of a bucket is legal in either build mode
C6_ForwardLegal ==
  (call.op = "step" /\ call.forward_only) =>
    /\ call.result.status # "AttributeError"
    /\ (/\ call.bucket_id >= 0
        /\ buckets # None
        /\ LengthsMatch
        /\ CopyListsFit) => call.result.status = "ok"

\* a training step of a model built forward-only fails
C6_TrainingIllegal ==
  (call.op = "step" /\ ~call.forward_only /\ state = "built_forward_only") =>
    /\ call.result.status # "ok"
    /\ ~call.result.executed
    /\ "value" \notin DOMAIN call.result
    /\ ((call.bucket_id >= 0 => buckets # None) /\ LengthsMatch /\ CopyListsFit
        /\ call.formatted_example.target_weights
             >= call.formatted_example.decoder_inputs) =>
          call.result.status = "AttributeError"

\* C6: the build mode is fixed by the constructor and no step changes it; a
\* forward-only step is legal in either mode and for every bucket; a training
\* step of a model built forward-only always fails and returns nothing.
C6_BuildMode ==
  /\ [](C6_ModeAsBuilt /\ C6_ForwardLegal /\ C6_TrainingIllegal)
  /\ [][(state \in Built) => (state' = state)]_vars

\* a training step of a model built forward-only, stopped where it looks for
\* the update operations
C6_Witness ==
  /\ state = "built_forward_only"
  /\ call.op = "step"
  /\ ~call.forward_only
  /\ call.bucket_id >= 0
  /\ call.result.status = "AttributeError"

\* C7: a step that succeeds on a selected bucket (or on the graph built without
\* buckets) returns (gradient norm, loss, None) of that graph when training
\* and (None, loss, the decoder_size logits of that graph in order) otherwise.
C7_ReturnShape ==
  (/\ call.op = "step"
   /\ call.result.status = "ok"
   /\ (call.bucket_id >= 0 \/ buckets = None)) =>
    LET v == call.result.value
        b == call.bucket_id
        decoder_size == StepSizes(hyperparams, buckets, b).decoder_size
    IN  /\ Len(v) = 3
        /\ ~call.forward_only =>
             v = <<GradientNorm(b), Loss(b), NoneValue>>
        /\ call.forward_only =>
             /\ v[1] = NoneValue
             /\ v[2] = Loss(b)
             /\ v[3] = [l \in 1..decoder_size |-> Logit(b, l - 1)]

\* a forward-only step of the second bucket returned its three logits
C7_Witness ==
  /\ call.op = "step"
  /\ call.result.status = "ok"
  /\ call.forward_only
  /\ call.bucket_id = 1
  /\ Len(call.result.value[3]) = 3

Unrecognized(hp) ==
  \/ hp.encoder_topology \notin EncoderTopologies
  \/ hp.decoder_topology \notin DecoderTopologies
  \/ hp.optimizer \notin Optimizers

\* C9 (as claimed): a model with an unrecognized encoder topology, decoder
\* topology or optimizer is never built, whatever forward_only and buckets are.
C9_Unrecognized ==
  Unrecognized(hyperparams) => state \notin Built

\* C9 (amended): an unrecognized encoder or decoder topology fails the
\* construction with a ValueError whatever forward_only and buckets are, and
\* so does an unrecognized optimizer when forward_only is false; step is
\* called on built models only.  (With forward_only true the optimizer is not
\* looked at.)
C9_UnrecognizedBackward ==
  /\ (\/ hyperparams.encoder_topology \notin EncoderTopologies
      \/ hyperparams.decoder_topology \notin DecoderTopologies
      \/ (hyperparams.optimizer \notin Optimizers /\ ~forward_only)) =>
        /\ state \in {"not_built", "failed"}
        /\ call.op # "step"
        /\ call.op = "__init__" => call.result.status = "ValueError"
  /\ state = "failed" => call.op \in {"none", "__init__"}
  /\ call.op = "step" => state \in Built

\* the constructor has raised on an unrecognized optimizer
C9_Witness ==
  /\ state = "failed"
  /\ hyperparams.optimizer \notin Optimizers
  /\ hyperparams.encoder_topology \in EncoderTopologies
  /\ hyperparams.decoder_topology \in DecoderTopologies
  /\ buckets # None
  /\ call.op = "__init__"
  /\ call.result.message = "Unrecognized optimizer type."

\* C10: the loss of every bucket graph is the sampled softmax iff
\* 0 < num_samples < target_vocab_size, the full softmax otherwise.
C10_SampledSoftmax ==
  state \in Built =>
    /\ Len(graph.bucket_graphs) = IF buckets = None THEN 1 ELSE Len(buckets)
    /\ \A i \in 1..Len(graph.bucket_graphs) :
         LET f == graph.bucket_graphs[i].losses.loss_function.name
         IN  IF 0 < hyperparams.num_samples
                /\ hyperparams.num_samples < hyperparams.target_vocab_size
               THEN f = "sampled_loss"
               ELSE f = "softmax_cross_entropy_with_logits"

\* a bucketed model whose num_samples equals target_vocab_size uses the full
\* softmax, one whose num_samples is in between uses the sampled one
C10_Witness ==
  /\ state \in Built
  /\ buckets # None
  /\ hyperparams.num_samples = hyperparams.target_vocab_size - 1
  /\ hyperparams.num_samples > 0
  /\ \A i \in 1..Len(graph.bucket_graphs) :
       graph.bucket_graphs[i].losses.loss_function.name = "sampled_loss"

\* the current call is a step that session.run executed
Executed == call.op = "step" /\ call.result.executed

\* C13 (as claimed): a step executed forward-only evaluates decoder graphs
\* built with feed_previous true, a step executed in training mode graphs built
\* with feed_previous false.
C13_FeedPreviousAsStepped ==
  Executed =>
    \A i \in call.result.graphs :
      graph.bucket_graphs[i].feed_previous = call.forward_only

\* C13 (amended): every decoder graph is built with feed_previous equal to the
\* forward_only flag of the constructor, and that is the graph an executed step
\* evaluates whatever the forward_only flag of the step; an executed training
\* step evaluates graphs built with feed_previous false.
C13_FeedPreviousAsBuilt ==
  /\ state \in Built =>
       /\ graph.bucket_graphs # <<>>
       /\ \A i \in 1..Len(graph.bucket_graphs) :
            graph.bucket_graphs[i].feed_previous = forward_only
  /\ Executed =>
       /\ call.result.graphs # {}
       /\ \A i \in call.result.graphs :
            /\ graph.bucket_graphs[i].feed_previous = forward_only
            /\ ~call.forward_only => ~graph.bucket_graphs[i].feed_previous

\* a forward-only step of a bucket of a trainable model was executed on a
\* graph built with feed_previous false
C13_Witness ==
  /\ Executed
  /\ call.forward_only
  /\ call.bucket_id >= 0
  /\ state = "built_trainable"
  /\ \A i \in call.result.graphs : ~graph.bucket_graphs[i].feed_previous

\* C14 (as claimed): the feed a validated step builds, for a bucket or for the
\* graph built without buckets, binds every slot the fetched loss and outputs
\* of that graph read, and the extra decoder slot exists.
C14_FeedBindsRequired ==
  (/\ call.op = "step"
   /\ call.result.validated
   /\ (call.bucket_id >= 0 \/ buckets = None)) =>
    LET sizes == StepSizes(hyperparams, buckets, call.bucket_id)
        g == graph.bucket_graphs[IF call.bucket_id >= 0
                                   THEN call.bucket_id + 1 ELSE 1]
    IN  /\ sizes.decoder_size < graph.decoder_inputs
        /\ Placeholders(g) \subseteq
             InputFeed(hyperparams, sizes.encoder_size, sizes.decoder_size)
        /\ call.result.status # "InvalidArgumentError"

\* a step call is made in this transition
Stepping == call.op = "none" /\ call'.op = "step"

\* the step made in this transition is a training step that passed the check
\* of the sizes and ran
TrainingStepRan ==
  /\ ~call'.forward_only
  /\ call'.result.validated
  /\ call'.result.status = "ok"

\* what a transition of a built model does to the parameters
ParamsFrame ==
  state \in Built =>
    /\ (params'.applied # params.applied \/ params'.values # params.values)
          => (Stepping /\ TrainingStepRan)
    /\ Stepping =>
         /\ params'.learning_rate = params.learning_rate
         /\ params'.global_epoch = params.global_epoch
         /\ params'.values = params.values
         /\ shared' = shared
         /\ (call'.forward_only \/ call'.result.status # "ok")
               => params' = params
         /\ (TrainingStepRan /\ call'.bucket_id >= 0) =>
               /\ call'.result.updates = {call'.bucket_id + 1}
               /\ params'.applied = params.applied + 1
         /\ params'.applied - params.applied
               = Cardinality(call'.result.updates)

\* C12: on a built model the trainable parameters change only in a step, and
\* only in a training step that passed the check of the sizes and ran; on a
\* selected bucket such a step applies the update operation of that bucket
\* and no other, once; a forward-only step and a step that raises leave every
\* parameter as it was; no step changes the learning rate or the epoch counter.
C12_ParamsFrame == [][ParamsFrame]_vars

\* the second training step of the second bucket has run, after the driver
\* had decayed the learning rate
C12_Witness ==
  /\ call.op = "step"
  /\ ~call.forward_only
  /\ call.result.status = "ok"
  /\ call.bucket_id = 1
  /\ params.applied = 2
  /\ params.learning_rate = 1

\* C16 (as claimed): in every bucket graph, and with either loss, the logits
\* the sequence loss is computed from are the decoder outputs projected through
\* the shared (W, b), the tensors an inference step returns, logit t being
\* paired with decoder input t + 1 and weight t.
C16_LossOnProjected ==
  state \in Built =>
    \A i \in 1..Len(graph.bucket_graphs) :
      LET g == graph.bucket_graphs[i]
      IN  /\ g.loss_logits = g.projected_outputs
          /\ \A t \in 1..Len(g.projected_outputs) :
               /\ g.projected_outputs[t].w = Storage(ProjW)
               /\ g.projected_outputs[t].b = Storage(ProjB)

-----------------------------------------------------------------------------
(* The get-or-create calls as a state machine: on a model the constructor  *)
(* has built, or on an EncoderDecoderModel whose graph nobody defined, a   *)
(* caller calls source_embeddings, target_embeddings and output_projection *)
(* in any order and writes through what they return.                       *)

\* configurations the constructor accepts, with the full and the sampled loss
SharedHyperparams ==
  {[BaseHyperparams EXCEPT !.num_samples = n] : n \in 0..MaxSamples}

InitShared ==
  /\ hyperparams \in SharedHyperparams
  /\ buckets \in {None, BucketList}
  /\ forward_only \in BOOLEAN
  /\ state \in {"not_built", "base"}
  /\ shared = NewShared
  /\ graph = NoGraph
  /\ params = NoParams
  /\ call = Idle

\* a variable holds its initial value 0 from its creation on
Allocate(p, sh) ==
  [p EXCEPT !.values = [k \in 1..(FreshStorage(sh.variables) - 1) |->
                          IF k <= Len(@) THEN @[k] ELSE 0]]

\* what a get-or-create call gave its caller: the variables by name
Handles(names, r) ==
  IF r.status # "ok"
    THEN [status |-> r.status]
    ELSE [status |-> "ok",
          handles |-> [k \in 1..Len(names) |->
                         [name |-> names[k],
                          storage |-> IF Len(names) = 1 THEN r.storage
                                      ELSE r.storage[k]]]]

GetOrCreateOps == {"source_embeddings", "target_embeddings", "output_projection"}

CallSourceEmbeddings ==
  /\ state \in Built \cup {"base"}
  /\ call = Idle
  /\ LET r == SourceEmbeddings(shared)
     IN  /\ shared' = r.shared
         /\ params' = Allocate(params, r.shared)
         /\ call' = [op |-> "source_embeddings", assigned |-> FALSE,
                     result |-> Handles(<<SourceTable>>, r)]
  /\ UNCHANGED <<hyperparams, buckets, forward_only, state, graph>>

CallTargetEmbeddings ==
  /\ state \in Built \cup {"base"}
  /\ call = Idle
  /\ LET r == TargetEmbeddings(shared)
     IN  /\ shared' = r.shared
         /\ params' = Allocate(params, r.shared)
         /\ call' = [op |-> "target_embeddings", assigned |-> FALSE,
                     result |-> Handles(<<TargetTable>>, r)]
  /\ UNCHANGED <<hyperparams, buckets, forward_only, state, graph>>

CallOutputProjection ==
  /\ state \in Built \cup {"base"}
  /\ call = Idle
  /\ LET r == OutputProjection(shared)
     IN  /\ shared' = r.shared
         /\ params' = Allocate(params, r.shared)
         /\ call' = [op |-> "output_projection", assigned |-> FALSE,
                     result |-> Handles(<<ProjW, ProjB>>, r)]
  /\ UNCHANGED <<hyperparams, buckets, forward_only, state, graph>>

\* the caller writes a value into a variable the call returned;
\* params.written keeps the value last written to each variable
Assign ==
  /\ call.op \in GetOrCreateOps
  /\ call.result.status = "ok"
  /\ \E k \in 1..Len(call.result.handles), v \in 0..MaxValue :
       LET h == call.result.handles[k]
       IN  params' = [params EXCEPT !.values[h.storage] = v,
                                    !.written[h.name] = v]
  /\ call' = [call EXCEPT !.assigned = TRUE]
  /\ UNCHANGED <<hyperparams, buckets, forward_only, state, shared, graph>>

NextShared ==
  \/ Construct
  \/ CallSourceEmbeddings
  \/ CallTargetEmbeddings
  \/ CallOutputProjection
  \/ Assign
  \/ Return

SpecShared == InitShared /\ [][NextShared]_vars

-----------------------------------------------------------------------------
(* Properties of the get-or-create calls.                                  *)

\* every bucket graph was given the storage of the four variables
GraphSharesStorage ==
  \A i \in 1..Len(graph.bucket_graphs) :
    LET g == graph.bucket_graphs[i]
    IN  /\ g.source_embeddings = Storage(SourceTable)
        /\ g.target_embeddings = Storage(TargetTable)
        /\ g.projection = <<Storage(ProjW), Storage(ProjB)>>
        /\ g.losses.loss_function.name = "sampled_loss" =>
             g.losses.loss_function.weights = <<Storage(ProjW), Storage(ProjB)>>

\* C8: whatever get-or-create calls were made and in whatever order, by the
\* constructor (once per bucket, and from the loss) or by a caller, no call
\* raises, each of the four variables was created at most once (exactly once
\* on a built model) and has a storage of its own, every call returns the
\* storage of its variable, and what is read through it is the value last
\* written through any earlier call.
C8_CreatedOnce ==
  /\ state # "failed"
  /\ \A n \in VarNames :
       /\ shared.variables[n].created <= 1
       /\ shared.variables[n].created = 1 <=> Storage(n) # 0
       /\ state \in Built => shared.variables[n].created = 1
       /\ \A m \in VarNames : (Storage(n) # 0 /\ Storage(n) = Storage(m)) => n = m
  /\ state \in Built => GraphSharesStorage
  /\ call.op \in GetOrCreateOps =>
       /\ call.result.status = "ok"
       /\ \A k \in 1..Len(call.result.handles) :
            LET h == call.result.handles[k]
            IN  /\ h.storage = Storage(h.name)
                /\ shared.variables[h.name].created = 1
                /\ params.values[h.storage] = params.written[h.name]

\* on a model built with buckets, a call of source_embeddings returns the
\* table holding the value a caller wrote through an earlier call
C8_Witness ==
  /\ state \in Built
  /\ buckets # None
  /\ call.op = "source_embeddings"
  /\ call.result.status = "ok"
  /\ ~call.assigned
  /\ params.written[SourceTable] = MaxValue
  /\ params.values[call.result.handles[1].storage] = MaxValue

-----------------------------------------------------------------------------
(* The value of the sequence loss: the loss tensor of a bucket graph is     *)
(* evaluated twice, on two runs of one column that differ only where the    *)
(* weight is 0.                                                             *)

\* tf.add_n(xs)
RECURSIVE AddN(_)
AddN(xs) == IF xs = <<>> THEN 0 ELSE Head(xs) + AddN(Tail(xs))

\* loss_function(logit, target): the cross-entropy of one step, a positive
\* number that tells any two (logit, target) apart; sampled is what the
\* sampled softmax drew for the step
Crossent(loss_function, logit, target, sampled) ==
  1 + logit + (MaxValue + 1) * (target + 2 * sampled)

\* a faulty term, for comparison: the weight is left out
UnweightedCrossent(crossent, weight) == crossent

\* crossent * weight
WeightedCrossent(crossent, weight) == crossent * weight

\* log_perps /= total_size, total_size being so many weights and so many
\* epsilons: not a number when total_size is zero
Divide(log_perps, total_size) ==
  IF total_size.weights = 0 /\ total_size.epsilon = 0
    THEN [status |-> "nan"]
    ELSE [status |-> "ok", numerator |-> log_perps, denominator |-> total_size]

\* the value of sequence_loss(logits, loss_function) when self.targets holds
\* the values all_targets and self.target_weights the values all_weights
SequenceLossValue(loss_function, logits, all_targets, all_weights, samples) ==
  LET targets == SubSeq(all_targets, 1, Min(Len(logits), Len(all_targets)))
      weights == SubSeq(all_weights, 1, Min(Len(logits), Len(all_weights)))
      zipped == Min(Len(logits), Min(Len(targets), Len(weights)))
      log_perp_list ==
        [i \in 1..zipped |->
           WeightedCrossent(Crossent(loss_function, logits[i], targets[i],
                                     samples[i]),
                            weights[i])]
      total_size == [weights |-> AddN(weights), epsilon |-> 1]
  IN  IF zipped = 0 \/ weights = <<>>
        THEN Raised("ValueError")
        ELSE Divide(AddN(log_perp_list), total_size)

\* the models whose loss is evaluated: a short target, with and without
\* buckets, with the full and with the sampled softmax
LossBuckets == <<<<1, 1>>, <<2, 2>>>>

LossHyperparams ==
  {[BaseHyperparams EXCEPT !.max_target_length = 2, !.num_samples = n] :
     n \in 0..1}

InitLoss ==
  /\ hyperparams \in LossHyperparams
  /\ buckets \in {None, LossBuckets}
  /\ forward_only = FALSE
  /\ state = "built_trainable"
  /\ shared = DefineGraph(hyperparams, buckets, forward_only).shared
  /\ graph = DefineGraph(hyperparams, buckets, forward_only).graph
  /\ params = InitialParams(shared)
  /\ call = Idle

\* the values one run feeds and computes for one column: a logit per decoder
\* output, a target per target slot, a draw of the sampler per output
Runs(g) ==
  [logits : [1..g.outputs -> 0..MaxValue],
   targets : [1..graph.targets -> {PAD_ID, 1}],
   samples : [1..g.outputs ->
                IF g.losses.loss_function.name = "sampled_loss"
                  THEN {0, 1} ELSE {0}]]

\* the runs differ only in logits, targets or draws of steps of weight 0
DifferOnlyUnweighted(run, other, weights) ==
  /\ \A t \in 1..Len(run.logits) :
       weights[t] = 1 =>
         run.logits[t] = other.logits[t] /\ run.samples[t] = other.samples[t]
  /\ \A t \in 1..Len(run.targets) :
       weights[t] = 1 => run.targets[t] = other.targets[t]

\* session.run of the loss of bucket graph i, twice
CallSequenceLoss ==
  /\ state \in Built
  /\ call = Idle
  /\ \E i \in 1..Len(graph.bucket_graphs) :
       LET g == graph.bucket_graphs[i]
       IN  \E weights \in [1..graph.target_weights -> {0, 1}],
              run \in Runs(g) :
             \E other \in {r \in Runs(g) : DifferOnlyUnweighted(run, r, weights)} :
             LET runs == <<run, other>>
             IN  call' =
                   [op |-> "sequence_loss", bucket_graph |-> i,
                    weights |-> weights, runs |-> runs,
                    result |->
                      [k \in 1..2 |->
                         SequenceLossValue(g.losses.loss_function,
                                           runs[k].logits, runs[k].targets,
                                           weights, runs[k].samples)]]
  /\ UNCHANGED <<hyperparams, buckets, forward_only, state, shared, graph, params>>

NextLoss ==
  \/ CallSequenceLoss
  \/ Return

SpecLoss == InitLoss /\ [][NextLoss]_vars

-----------------------------------------------------------------------------
(* Properties of the sequence loss.                                        *)

\* the sum of f[1], ..., f[n]
RECURSIVE SumTo(_, _)
SumTo(f, n) == IF n = 0 THEN 0 ELSE f[n] + SumTo(f, n - 1)

-----------------------------------------------------------------------------
(* Builders that interleave: each builder calls source_embeddings or       *)
(* target_embeddings once on the same EncoderDecoderModel, and a call is   *)
(* three steps: open the scope with the flag as its reuse, get the         *)
(* variable, set the flag.  Nothing orders the steps of different builders. *)

MaxBuilders == 3

Builders == 1..MaxBuilders

EmbeddingTables == {SourceTable, TargetTable}

\* self.source_embedding_vars or self.target_embedding_vars, read as the
\* reuse of the table's scope
EmbeddingVars(sh, table) ==
  IF table = SourceTable
    THEN sh.source_embedding_vars
    ELSE sh.target_embedding_vars

\* a faulty end of the call, for comparison: the flag stays as it is
KeepEmbeddingVars(sh, table) == sh

\* self.source_embedding_vars = True, or self.target_embedding_vars = True
SetEmbeddingVars(sh, table) ==
  IF table = SourceTable
    THEN [sh EXCEPT !.source_embedding_vars = TRUE]
    ELSE [sh EXCEPT !.target_embedding_vars = TRUE]

NotCalled == [pc |-> "not_called"]

\* a builder is inside its call for the table
Inside(builder, table) ==
  builder.pc \in {"scope", "got"} /\ builder.table = table

\* the builder's call for the table has returned
Returned(builder, table) ==
  builder.pc = "returned" /\ builder.table = table

InitBuilders ==
  /\ hyperparams = BaseHyperparams
  /\ buckets = None
  /\ forward_only = FALSE
  /\ state = "base"
  /\ shared = NewShared
  /\ graph = NoGraph
  /\ params = NoParams
  /\ call = [op |-> "builders", builder |-> [b \in Builders |-> NotCalled]]

\* with tf.variable_scope(..., reuse=self.source_embedding_vars): the builder
\* enters the call and reads the flag; during is the builders inside a call
\* for the same table at this moment, after those whose call for it returned
OpenScope ==
  /\ call.op = "builders"
  /\ \E b \in Builders, table \in EmbeddingTables :
       /\ call.builder[b].pc = "not_called"
       /\ call' = [call EXCEPT
                     !.builder[b] =
                       [pc |-> "scope", table |-> table, status |-> "open",
                        reuse |-> EmbeddingVars(shared, table),
                        during |-> {o \in Builders : Inside(call.builder[o], table)},
                        after |-> {o \in Builders : Returned(call.builder[o], table)}]]
  /\ UNCHANGED <<hyperparams, buckets, forward_only, state, shared, graph, params>>

\* embeddings = tf.get_variable("embedding", ...) in the scope the builder
\* opened
GetEmbedding ==
  /\ call.op = "builders"
  /\ \E b \in Builders :
       /\ call.builder[b].pc = "scope"
       /\ LET r == GetVariable(shared.variables, call.builder[b].table,
                               call.builder[b].reuse)
          IN  /\ shared' = [shared EXCEPT !.variables = r.variables]
              /\ call' = [call EXCEPT
                            !.builder[b].pc =
                              IF r.status = "ok" THEN "got" ELSE "raised",
                            !.builder[b].status = r.status]
  /\ UNCHANGED <<hyperparams, buckets, forward_only, state, graph, params>>

\* the flag is set and the call returns
SetFlag ==
  /\ call.op = "builders"
  /\ \E b \in Builders :
       /\ call.builder[b].pc = "got"
       /\ shared' = SetEmbeddingVars(shared, call.builder[b].table)
       /\ call' = [call EXCEPT !.builder[b].pc = "returned"]
  /\ UNCHANGED <<hyperparams, buckets, forward_only, state, graph, params>>

NextBuilders ==
  \/ OpenScope
  \/ GetEmbedding
  \/ SetFlag

SpecBuilders == InitBuilders /\ [][NextBuilders]_vars

-----------------------------------------------------------------------------
(* Properties of the interleaved builders.                                 *)

\* the builder has called get_variable without reuse: the create path
TookCreatePath(builder) ==
  builder.pc \in {"got", "returned", "raised"} /\ ~builder.reuse

\* the builders that have called for the table
Callers(table) ==
  {b \in Builders : call.builder[b].pc # "not_called" /\ call.builder[b].table = table}

\* some call for the table began while another call for it was in progress
Interleaved(table) ==
  \E b \in Callers(table) : call.builder[b].during # {}

\* C15: two builders both take the create path for one table only when calls
\* for that table interleave; a call that begins after another call for the
\* table has returned reads the flag as set, reuses, and does not raise.
C15_CreateTwiceOnlyInterleaved ==
  call.op = "builders" =>
    \A table \in EmbeddingTables :
      /\ ~Interleaved(table) =>
           Cardinality({b \in Callers(table) : TookCreatePath(call.builder[b])}) <= 1
      /\ \A b \in Callers(table) :
           call.builder[b].after # {} =>
             /\ call.builder[b].reuse
             /\ call.builder[b].pc # "raised"

\* both builders opened the scope of the source table before either got the
\* variable: both read the flag as unset and both took the create path, and
\* the second get_variable raised
C15_Witness ==
  /\ call.op = "builders"
  /\ call.builder[1].pc = "returned"
  /\ call.builder[2].pc = "raised"
  /\ call.builder[1].table = SourceTable
  /\ call.builder[2].table = SourceTable
  /\ ~call.builder[1].reuse
  /\ ~call.builder[2].reuse
  /\ 1 \in call.builder[2].during

====
